---- MODULE Spec2Model ----
(***************************************************************************)
(* Model of the Corsair Commander Pro driver                               *)
(* (liquidctl/driver/commander_pro.py): the persisted session state        *)
(* (fan_modes, temp_sensors_connected, saved_effects), the transport       *)
(* traffic of each driver call, and the three device variants.             *)
(*                                                                         *)
(* Every action is one whole driver call.  `data` is the persistent store  *)
(* after the call, `pre` the store before it, `call` the arguments and the *)
(* outcome of the call, and `log` the transport operations the call made,  *)
(* in order.  The record of a call is dropped (Done) before the next call  *)
(* is made; `cleared` is the number of effects the latest set_color erased  *)
(* if it was a 'clear', and -1 otherwise.                                  *)
(*                                                                         *)
(* The codecs of liquidctl/pmbus.py are modelled beside the driver:        *)
(* `_PEC_TBL` is the module's cached CRC table and `codec` the latest      *)
(* codec call with its argument and result.                                *)
(***************************************************************************)
EXTENDS Integers, Sequences, FiniteSets, TLC

VARIABLES variant, data, pre, call, log, cleared, _PEC_TBL, codec, threads

vars == <<variant, data, pre, call, log, cleared, _PEC_TBL, codec, threads>>

(***************************************************************************)
(* Constants of commander_pro.py                                           *)
(***************************************************************************)
_REPORT_LENGTH == 64
_RESPONSE_LENGTH == 16

_CMD_GET_FIRMWARE == 2
_CMD_GET_BOOTLOADER == 6
_CMD_GET_TEMP_CONFIG == 16
_CMD_GET_TEMP == 17
_CMD_GET_VOLTS == 18
_CMD_GET_FAN_MODES == 32
_CMD_GET_FAN_RPM == 33
_CMD_SET_FAN_DUTY == 35
_CMD_SET_FAN_PROFILE == 37

_CMD_RESET_LED_CHANNEL == 55
_CMD_BEGIN_LED_EFFECT == 52
_CMD_SET_LED_CHANNEL_STATE == 56
_CMD_LED_EFFECT == 53
_CMD_LED_COMMIT == 51

_LED_PORT_STATE_HARDWARE == 1
_LED_SPEED_FAST == 0
_LED_SPEED_MEDIUM == 1
_LED_SPEED_SLOW == 2

_LED_DIRECTION_FORWARD == 1
_LED_DIRECTION_BACKWARD == 0

_FAN_MODE_DISCONNECTED == 0
_FAN_MODE_DC == 1
_FAN_MODE_PWM == 2

_PROFILE_LENGTH == 6
_CRITICAL_TEMPERATURE == 60
_CRITICAL_TEMPERATURE_HIGH == 100
_MAX_FAN_RPM == 5000

\* The most lighting effects one LED program may hold (set_color).
_MAX_EFFECTS == 8
\* The number of addressable LEDs (set_color clamps start_led to 1..204).
_MAX_LEDS == 204
\* The product id of the Commander Pro, the only variant get_status serves.
_PID_COMMANDER_PRO == 3088

\* _MODES.get(mode, -1)
_MODES(mode) ==
    CASE mode = "off" -> 4
      [] mode = "rainbow" -> 0
      [] mode = "color_shift" -> 1
      [] mode = "color_pulse" -> 2
      [] mode = "color_wave" -> 3
      [] mode = "fixed" -> 4
      [] mode = "visor" -> 6
      [] mode = "marquee" -> 7
      [] mode = "blink" -> 8
      [] mode = "sequential" -> 9
      [] mode = "rainbow2" -> 10
      [] OTHER -> -1

\* SUPPORTED_DEVICES: the three variants the driver serves.
SUPPORTED_DEVICES ==
    { [product_id |-> 3088, fan_count |-> 6, temp_probs |-> 4, led_channels |-> 2],
      [product_id |-> 3083, fan_count |-> 0, temp_probs |-> 0, led_channels |-> 2],
      [product_id |-> 3098, fan_count |-> 0, temp_probs |-> 0, led_channels |-> 1] }

(***************************************************************************)
(* Small helpers                                                           *)
(***************************************************************************)
Min(a, b) == IF a < b THEN a ELSE b
Max(a, b) == IF a > b THEN a ELSE b

\* liquidctl.util.clamp: max(clampmin, min(clampmax, value))
clamp(value, clampmin, clampmax) == Max(clampmin, Min(clampmax, value))

\* Python's seq[:n]
Take(s, n) == SubSeq(s, 1, Min(n, Len(s)))

\* n copies of x: n * [x]
Repeat(x, n) == [i \in 1..n |-> x]

\* The names of the channels: _fan_names and _led_names of __init__.
Digit(n) == CASE n = 1 -> "1" [] n = 2 -> "2" [] n = 3 -> "3" [] n = 4 -> "4"
              [] n = 5 -> "5" [] n = 6 -> "6" [] OTHER -> "?"

_fan_names(v) == [i \in 1..v.fan_count |-> "fan" \o Digit(i)]

_led_names(v) ==
    IF v.led_channels = 1 THEN <<"led">>
    ELSE [i \in 1..v.led_channels |-> "led" \o Digit(i)]

(***************************************************************************)
(* The persistent store (liquidctl.keyval.RuntimeStorage): a value per     *)
(* key; a key never stored, or stored as None, loads as the default.       *)
(***************************************************************************)
None == [none |-> TRUE, val |-> <<>>]
Some(v) == [none |-> FALSE, val |-> v]

store(d, key, value) == [d EXCEPT ![key] = value]

load(d, key, default) == IF d[key].none THEN default ELSE d[key].val

EmptyStore ==
    [temp_sensors_connected |-> None, fan_modes |-> None, saved_effects |-> None]

(***************************************************************************)
(* _send_command: one clear of the queued reports, one write of the        *)
(* 65-byte report, one read of the 16-byte response.                       *)
(***************************************************************************)
Event(op, buf, len) == [op |-> op, buf |-> buf, len |-> len]

\* As CommandBuffer, with the data cut to its first _REPORT_LENGTH bytes.
CommandBuffer_cut_late(command, payload) ==
    LET zeros == [i \in 1..(_REPORT_LENGTH + 1) |-> 0]
        cut == Take(payload, _REPORT_LENGTH)
    IN  <<0, command>> \o cut \o SubSeq(zeros, 2 + Len(cut) + 1, Len(zeros))

\* bytearray(_REPORT_LENGTH + 1) with buf[1] = command and the data, cut to
\* its first _REPORT_LENGTH - 1 bytes, from offset 2 (offsets are 0-based
\* in the source, positions 1-based here).
\* The slice assignment buf[start_at: start_at + len(data)] = data puts
\* the data in place of the bytes of that slice and keeps the bytes after it.
CommandBuffer(command, payload) ==
    LET zeros == [i \in 1..(_REPORT_LENGTH + 1) |-> 0]
        cut == Take(payload, _REPORT_LENGTH - 1)
    IN  <<0, command>> \o cut \o SubSeq(zeros, 2 + Len(cut) + 1, Len(zeros))

_send_command(command, payload) ==
    << Event("clear", <<>>, 0),
       Event("write", CommandBuffer(command, payload), 0),
       Event("read", <<>>, _RESPONSE_LENGTH) >>

\* The write buffers of a log, in order.
Writes(l) == SelectSeq(l, LAMBDA e : e.op = "write")

(***************************************************************************)
(* Channel resolution                                                      *)
(***************************************************************************)
IndexOf(names, name) == CHOOSE i \in 1..Len(names) : names[i] = name

InNames(names, name) == \E i \in 1..Len(names) : names[i] = name

\* The three results of a resolution: a list of 0-based physical indices,
\* None (the function falls off its end), or a raised ValueError.
Resolved(list) == [kind |-> "list", val |-> list, error |-> ""]
ResolvedNone == [kind |-> "none", val |-> <<>>, error |-> ""]

\* _quoted: ', '.join(map(repr, names))
RECURSIVE _quoted(_)
_quoted(names) ==
    IF names = <<>> THEN ""
    ELSE IF Len(names) = 1 THEN "'" \o names[1] \o "'"
    ELSE "'" \o names[1] \o "', " \o _quoted(Tail(names))

\* raise ValueError(f'unknown channel, should be one of: ...')
ResolvedError(names) ==
    [ kind |-> "error", val |-> <<>>,
      error |-> "unknown channel, should be one of: " \o _quoted(<<"sync">> \o names) ]

\* As ResolveChannel, with the position in the list taken as the index.
ResolveChannel_one_based(names, channel) ==
    IF channel = "sync" THEN Resolved([i \in 1..Len(names) |-> i - 1])
    ELSE IF InNames(names, channel) THEN Resolved(<<IndexOf(names, channel)>>)
    ELSE IF Len(names) > 1 THEN ResolvedError(names)
    ELSE ResolvedNone

\* As ResolveChannel, raising for an unknown name whenever there is a channel.
ResolveChannel_strict(names, channel) ==
    IF channel = "sync" THEN Resolved([i \in 1..Len(names) |-> i - 1])
    ELSE IF InNames(names, channel) THEN Resolved(<<IndexOf(names, channel) - 1>>)
    ELSE IF Len(names) >= 1 THEN ResolvedError(names)
    ELSE ResolvedNone

ResolveChannel(names, channel) ==
    IF channel = "sync" THEN Resolved([i \in 1..Len(names) |-> i - 1])
    ELSE IF InNames(names, channel) THEN Resolved(<<IndexOf(names, channel) - 1>>)
    ELSE IF Len(names) > 1 THEN ResolvedError(names)
    ELSE ResolvedNone

_get_hw_fan_channels(v, channel) == ResolveChannel(_fan_names(v), channel)

_get_hw_led_channels(v, channel) == ResolveChannel(_led_names(v), channel)

(***************************************************************************)
(* The result of a call: its outcome, the store it leaves and the          *)
(* transport operations it made.                                           *)
(***************************************************************************)
Result(out, d, l) == [out |-> out, data |-> d, log |-> l]

(***************************************************************************)
(* set_color                                                               *)
(***************************************************************************)
\* colors[:3] flattened to bytes.
FlattenColors(colors) ==
    LET expanded == Take(colors, 3)
    IN  [i \in 1..(3 * Len(expanded)) |-> expanded[((i - 1) \div 3) + 1][((i - 1) % 3) + 1]]

\* liquidctl.util.map_direction for the two valid directions.
map_direction(direction, forward, backward) ==
    IF direction = "forward" THEN forward ELSE backward

SpeedCode(speed) ==
    IF speed = "slow" THEN _LED_SPEED_SLOW
    ELSE IF speed = "fast" THEN _LED_SPEED_FAST
    ELSE _LED_SPEED_MEDIUM

\* As StoredStartLed, keeping the one-based start.
StoredStartLed_one_based(start_led) == clamp(start_led, 1, _MAX_LEDS)

StoredStartLed(start_led) == clamp(start_led, 1, _MAX_LEDS) - 1

StoredNumLeds(start_led, maximum_leds) ==
    clamp(maximum_leds, 1, _MAX_LEDS - StoredStartLed(start_led) - 1)

RandomColors(mode, flat) == IF mode = "off" \/ Len(flat) # 0 THEN 0 ELSE 1

\* The lighting_effect dictionary built for one LED channel.
LightingEffect(led_channel, a) ==
    [ channel |-> led_channel,
      start_led |-> StoredStartLed(a.start_led),
      num_leds |-> StoredNumLeds(a.start_led, a.maximum_leds),
      mode |-> _MODES(a.mode),
      speed |-> SpeedCode(a.speed),
      direction |-> map_direction(a.direction, _LED_DIRECTION_FORWARD, _LED_DIRECTION_BACKWARD),
      random_colors |-> RandomColors(a.mode, FlattenColors(a.colors)),
      colors |-> FlattenColors(a.colors) ]

\* As TooManyEffects, with the limit off by one.
TooManyEffects_off_by_one(saved) == Len(saved) > _MAX_EFFECTS + 1

\* len(saved_effects) > 8
TooManyEffects(saved) == Len(saved) > _MAX_EFFECTS

\* As ChannelInitFrames, with the effect begun before the channel is reset.
ChannelInitFrames_begin_first(led_channel) ==
    _send_command(_CMD_BEGIN_LED_EFFECT, <<led_channel>>)
    \o _send_command(_CMD_RESET_LED_CHANNEL, <<led_channel>>)
    \o _send_command(_CMD_SET_LED_CHANNEL_STATE, <<led_channel, _LED_PORT_STATE_HARDWARE>>)

\* The three frames that start the LED commands of one channel.
ChannelInitFrames(led_channel) ==
    _send_command(_CMD_RESET_LED_CHANNEL, <<led_channel>>)
    \o _send_command(_CMD_BEGIN_LED_EFFECT, <<led_channel>>)
    \o _send_command(_CMD_SET_LED_CHANNEL_STATE, <<led_channel, _LED_PORT_STATE_HARDWARE>>)

\* The config list of one effect.
EffectConfig(effect) ==
    << effect.channel, effect.start_led, effect.num_leds, effect.mode,
       effect.speed, effect.direction, effect.random_colors, 255 >>
    \o effect.colors

\* The second loop of set_color: one LED_EFFECT frame per effect.
RECURSIVE ReplayFrames(_)
ReplayFrames(saved) ==
    IF saved = <<>> THEN <<>>
    ELSE _send_command(_CMD_LED_EFFECT, EffectConfig(Head(saved)))
         \o ReplayFrames(Tail(saved))

\* As StartingEffects, never loading what the store holds.
StartingEffects_fresh(d, mode) == <<>>

\* saved_effects at the start: [] on 'off', else what the store holds.
StartingEffects(d, mode) ==
    IF mode = "off" THEN <<>> ELSE load(d, "saved_effects", <<>>)

\* As PersistedEffects, storing the effects on 'off' too.
PersistedEffects_keeps_off(mode, saved) == Some(saved)

\* What set_color stores once every channel is started.
PersistedEffects(mode, saved) == IF mode = "off" THEN None ELSE Some(saved)

\* As OverflowResult, with the store seeing the list grown in place.
OverflowResult_aliased(d, saved, l) ==
    Result("overflow", store(d, "saved_effects", Some(saved)), l)

\* What the call leaves behind when it returns for too many effects.
OverflowResult(d, saved, l) == Result("overflow", d, l)

\* The first loop of set_color over the channels from position i on:
\* append the effect, return on overflow, else start the channel.
RECURSIVE ChannelLoop(_, _, _, _, _)
ChannelLoop(channels, i, a, saved, l) ==
    IF i > Len(channels) THEN [overflow |-> FALSE, saved |-> saved, log |-> l]
    ELSE LET grown == saved \o <<LightingEffect(channels[i], a)>>
         IN  IF TooManyEffects(grown)
             THEN [overflow |-> TRUE, saved |-> grown, log |-> l]
             ELSE ChannelLoop(channels, i + 1, a, grown, l \o ChannelInitFrames(channels[i]))

\* As ClearResult, storing nothing.
ClearResult_keeps(d) == Result("ok", d, <<>>)

\* The 'clear' mode.
ClearResult(d) == Result("ok", store(d, "saved_effects", None), <<>>)

set_color(v, d, a) ==
    IF a.mode = "clear" THEN ClearResult(d)
    ELSE IF _MODES(a.mode) = -1 THEN Result("invalid_mode", d, <<>>)
    ELSE LET channels == _get_hw_led_channels(v, a.channel)
             loop == ChannelLoop(channels.val, 1, a, StartingEffects(d, a.mode), <<>>)
         IN  IF channels.kind = "error" THEN Result("unknown_channel", d, <<>>)
             ELSE IF channels.kind = "none" THEN Result("type_error", d, <<>>)
             ELSE IF loop.overflow THEN OverflowResult(d, loop.saved, loop.log)
             ELSE Result("ok",
                         store(d, "saved_effects", PersistedEffects(a.mode, loop.saved)),
                         loop.log \o ReplayFrames(loop.saved)
                                  \o _send_command(_CMD_LED_COMMIT, <<255>>))

(***************************************************************************)
(* set_color over a transport that raises.  No call of _send_command sits  *)
(* in a try block, so an exception of clear_enqueued_reports, write or     *)
(* read ends set_color where it stands.                                    *)
(***************************************************************************)
\* self._data.store('saved_effects', ...) as a step among the transport's.
StoreEvent == Event("store", <<>>, 0)

\* The transport call that raised.
RaiseEvent == Event("raise", <<>>, 0)

\* As ColorTrace, with the effects stored before the channels are started.
ColorTrace_store_first(loop) ==
    <<StoreEvent>> \o loop.log \o ReplayFrames(loop.saved)
                   \o _send_command(_CMD_LED_COMMIT, <<255>>)

\* The steps of set_color after its first loop ended without overflow, in
\* program order: the frames of the loop, the store, the replay, the commit.
ColorTrace(loop) ==
    loop.log \o <<StoreEvent>> \o ReplayFrames(loop.saved)
             \o _send_command(_CMD_LED_COMMIT, <<255>>)

\* The steps taken when the transport completes `budget` calls and raises
\* in the next one.
RECURSIVE RunUntilRaise(_, _, _)
RunUntilRaise(trace, i, budget) ==
    IF i > Len(trace) THEN <<>>
    ELSE IF trace[i] = StoreEvent THEN <<StoreEvent>> \o RunUntilRaise(trace, i + 1, budget)
    ELSE IF budget = 0 THEN <<RaiseEvent>>
    ELSE <<trace[i]>> \o RunUntilRaise(trace, i + 1, budget - 1)

Raised(run) == run # <<>> /\ run[Len(run)] = RaiseEvent

Stored(run) == \E i \in 1..Len(run) : run[i] = StoreEvent

\* set_color when the transport raises after `budget` completed calls.
set_color_raising(v, d, a, budget) ==
    IF a.mode = "clear" THEN ClearResult(d)
    ELSE IF _MODES(a.mode) = -1 THEN Result("invalid_mode", d, <<>>)
    ELSE LET channels == _get_hw_led_channels(v, a.channel)
             loop == ChannelLoop(channels.val, 1, a, StartingEffects(d, a.mode), <<>>)
             run == RunUntilRaise(IF loop.overflow THEN loop.log ELSE ColorTrace(loop),
                                  1, budget)
             kept == IF Stored(run)
                     THEN store(d, "saved_effects", PersistedEffects(a.mode, loop.saved))
                     ELSE d
         IN  IF channels.kind = "error" THEN Result("unknown_channel", d, <<>>)
             ELSE IF channels.kind = "none" THEN Result("type_error", d, <<>>)
             ELSE IF Raised(run) THEN Result("transport_error", kept, run)
             ELSE IF loop.overflow THEN OverflowResult(d, loop.saved, loop.log)
             ELSE Result("ok", kept, run)

(***************************************************************************)
(* initialize and get_status                                               *)
(***************************************************************************)
\* Python's res[lo:hi] of a response (0-based, hi excluded).
Slice(res, lo, hi) == SubSeq(res, lo + 1, Min(hi, Len(res)))

\* As FanIsDriven, taking every mode but Disconnected as driven.
FanIsDriven_not_disconnected(mode) == mode # _FAN_MODE_DISCONNECTED

\* mode == _FAN_MODE_DC or mode == _FAN_MODE_PWM
FanIsDriven(mode) == mode = _FAN_MODE_DC \/ mode = _FAN_MODE_PWM

\* The temperature sensor part of initialize.
InitTempSensors(v, d, res) ==
    IF v.temp_probs > 0
    THEN Result("ok", store(d, "temp_sensors_connected", Some(Slice(res, 1, 5))),
                _send_command(_CMD_GET_TEMP_CONFIG, <<>>))
    ELSE Result("ok", d, <<>>)

\* The fan mode part of initialize.
InitFanModes(v, d, res) ==
    IF v.fan_count > 0
    THEN Result("ok", store(d, "fan_modes", Some(Slice(res, 1, v.fan_count + 1))),
                _send_command(_CMD_GET_FAN_MODES, <<>>))
    ELSE Result("ok", d, <<>>)

\* initialize, given the device's responses to GET_TEMP_CONFIG and GET_FAN_MODES.
initialize(v, d, temp_res, fan_res) ==
    LET temps == InitTempSensors(v, d, temp_res)
        fans == InitFanModes(v, temps.data, fan_res)
    IN  Result("ok", fans.data,
               _send_command(_CMD_GET_FIRMWARE, <<>>)
               \o _send_command(_CMD_GET_BOOTLOADER, <<>>)
               \o temps.log \o fans.log)

\* _get_temp of every sensor from position i on that is marked (truthy).
RECURSIVE TempReads(_, _)
TempReads(sensors, i) ==
    IF i > Len(sensors) THEN <<>>
    ELSE (IF sensors[i] # 0 THEN _send_command(_CMD_GET_TEMP, <<i - 1>>) ELSE <<>>)
         \o TempReads(sensors, i + 1)

\* _get_fan_rpm of every fan from position i on that is in DC or PWM mode.
RECURSIVE RpmReads(_, _)
RpmReads(fan_modes, i) ==
    IF i > Len(fan_modes) THEN <<>>
    ELSE (IF FanIsDriven(fan_modes[i]) THEN _send_command(_CMD_GET_FAN_RPM, <<i - 1>>) ELSE <<>>)
         \o RpmReads(fan_modes, i + 1)

\* As get_status, with the fan modes it read (or their default) stored.
get_status_caches(v, d) ==
    IF v.product_id # _PID_COMMANDER_PRO THEN Result("ok", d, <<>>)
    ELSE Result("ok",
                store(d, "fan_modes", Some(load(d, "fan_modes", Repeat(0, v.fan_count)))),
                TempReads(load(d, "temp_sensors_connected", Repeat(0, v.temp_probs)), 1)
                \o _send_command(_CMD_GET_VOLTS, <<0>>)
                \o _send_command(_CMD_GET_VOLTS, <<1>>)
                \o _send_command(_CMD_GET_VOLTS, <<2>>)
                \o RpmReads(load(d, "fan_modes", Repeat(0, v.fan_count)), 1))

get_status(v, d) ==
    IF v.product_id # _PID_COMMANDER_PRO THEN Result("ok", d, <<>>)
    ELSE Result("ok", d,
                TempReads(load(d, "temp_sensors_connected", Repeat(0, v.temp_probs)), 1)
                \o _send_command(_CMD_GET_VOLTS, <<0>>)
                \o _send_command(_CMD_GET_VOLTS, <<1>>)
                \o _send_command(_CMD_GET_VOLTS, <<2>>)
                \o RpmReads(load(d, "fan_modes", Repeat(0, v.fan_count)), 1))

(***************************************************************************)
(* set_fixed_speed                                                         *)
(***************************************************************************)
\* The payload of the SET_FAN_DUTY frame of one fan.
DutyPayload(fan, duty) == <<fan, clamp(duty, 0, 100)>>

\* The loop of set_fixed_speed over the resolved fans from position i on.
RECURSIVE DutyLoop(_, _, _, _)
DutyLoop(fan_channels, i, fan_modes, duty) ==
    IF i > Len(fan_channels) THEN <<>>
    ELSE (IF FanIsDriven(fan_modes[fan_channels[i] + 1])
          THEN _send_command(_CMD_SET_FAN_DUTY, DutyPayload(fan_channels[i], duty))
          ELSE <<>>)
         \o DutyLoop(fan_channels, i + 1, fan_modes, duty)

set_fixed_speed(v, d, channel, duty) ==
    IF v.fan_count = 0 THEN Result("not_supported", d, <<>>)
    ELSE LET fan_channels == _get_hw_fan_channels(v, channel)
         IN  IF fan_channels.kind = "error" THEN Result("unknown_channel", d, <<>>)
             ELSE Result("ok", d,
                         DutyLoop(fan_channels.val, 1,
                                  load(d, "fan_modes", Repeat(0, v.fan_count)), duty))

(***************************************************************************)
(* set_speed_profile                                                       *)
(***************************************************************************)
\* The sort key of normalize_profile: (p[0], -p[1]).
PointBefore(p, q) == p[1] < q[1] \/ (p[1] = q[1] /\ p[2] > q[2])

\* sorted(...): a stable insertion sort.
RECURSIVE InsertPoint(_, _)
InsertPoint(p, sorted) ==
    IF sorted = <<>> THEN <<p>>
    ELSE IF PointBefore(p, Head(sorted)) THEN <<p>> \o sorted
    ELSE <<Head(sorted)>> \o InsertPoint(p, Tail(sorted))

RECURSIVE SortPoints(_)
SortPoints(points) ==
    IF points = <<>> THEN <<>>
    ELSE InsertPoint(points[Len(points)], SortPoints(SubSeq(points, 1, Len(points) - 1)))

\* The loop of liquidctl.util.normalize_profile from position i on.
RECURSIVE MonoLoop(_, _, _, _)
MonoLoop(profile, i, mono, max_value) ==
    IF i > Len(profile) THEN mono
    ELSE IF profile[i][1] = profile[i - 1][1] THEN MonoLoop(profile, i + 1, mono, max_value)
    ELSE LET y == Max(profile[i][2], profile[i - 1][2])
         IN  IF y = max_value THEN Append(mono, <<profile[i][1], y>>)
             ELSE MonoLoop(profile, i + 1, Append(mono, <<profile[i][1], y>>), max_value)

\* liquidctl.util.normalize_profile
normalize_profile(profile, critx, max_value) ==
    LET sorted == SortPoints(profile \o << <<critx, max_value>> >>)
    IN  MonoLoop(sorted, 2, Take(sorted, 1), max_value)

\* The profile _prepare_profile returns, or raises for (ok = FALSE).
\* As _prepare_profile, accepting one point more than the frame holds.
_prepare_profile_lenient(original, critcalTempature) ==
    LET clamped == [i \in 1..Len(original) |->
                        <<original[i][1], clamp(original[i][2], 0, _MAX_FAN_RPM)>>]
        normal == normalize_profile(clamped, critcalTempature, _MAX_FAN_RPM)
        missing == _PROFILE_LENGTH - Len(normal)
    IN  IF missing < -1 THEN [ok |-> FALSE, profile |-> <<>>]
        ELSE [ok |-> TRUE,
              profile |-> normal \o Repeat(<<critcalTempature, _MAX_FAN_RPM>>, missing)]

\* As CriticalTemp, without the high-temperature override.
CriticalTemp_ignores_override(unsafe) == _CRITICAL_TEMPERATURE

_prepare_profile(original, critcalTempature) ==
    LET clamped == [i \in 1..Len(original) |->
                        <<original[i][1], clamp(original[i][2], 0, _MAX_FAN_RPM)>>]
        normal == normalize_profile(clamped, critcalTempature, _MAX_FAN_RPM)
        missing == _PROFILE_LENGTH - Len(normal)
    IN  IF missing < 0 THEN [ok |-> FALSE, profile |-> <<>>]
        ELSE [ok |-> TRUE,
              profile |-> normal \o Repeat(<<critcalTempature, _MAX_FAN_RPM>>, missing)]

\* The critical temperature; `unsafe` is check_unsafe('high_temperature').
CriticalTemp(unsafe) ==
    IF unsafe THEN _CRITICAL_TEMPERATURE_HIGH ELSE _CRITICAL_TEMPERATURE

\* int.to_bytes(2, byteorder='big')[k]
BigEndian2(value, k) == IF k = 0 THEN (value \div 256) % 256 ELSE value % 256

\* As ClampedSensor, with the upper limit off by one.
ClampedSensor_off_by_one(v, temperature_sensor) ==
    clamp(temperature_sensor, 1, v.temp_probs - 1)

\* temp_sensor = clamp(temperature_sensor, 1, self._temp_probs)
ClampedSensor(v, temperature_sensor) == clamp(temperature_sensor, 1, v.temp_probs)

\* sensors[temp_sensor-1] != 1 raises
SensorRejected(sensors, temp_sensor) == sensors[(temp_sensor - 1) + 1] # 1

\* buf[1] = temp_sensor-1
SensorByte(temp_sensor) == temp_sensor - 1

\* The 26-byte buf of set_speed_profile with buf[0] = fan.
ProfileBuffer(fan, temp_sensor, profile) ==
    [p \in 1..26 |->
        LET o == p - 1
        IN  IF o = 0 THEN fan
            ELSE IF o = 1 THEN SensorByte(temp_sensor)
            ELSE IF o < 14 THEN BigEndian2(profile[((o - 2) \div 2) + 1][1] * 100, (o - 2) % 2)
            ELSE BigEndian2(profile[((o - 14) \div 2) + 1][2], (o - 14) % 2)]

\* The loop of set_speed_profile over the resolved fans from position i on.
RECURSIVE ProfileLoop(_, _, _, _, _)
ProfileLoop(fan_channels, i, fan_modes, temp_sensor, profile) ==
    IF i > Len(fan_channels) THEN <<>>
    ELSE (IF FanIsDriven(fan_modes[fan_channels[i] + 1])
          THEN _send_command(_CMD_SET_FAN_PROFILE,
                             ProfileBuffer(fan_channels[i], temp_sensor, profile))
          ELSE <<>>)
         \o ProfileLoop(fan_channels, i + 1, fan_modes, temp_sensor, profile)

\* As set_speed_profile, with the sensor checked after the frames are sent.
set_speed_profile_late_check(v, d, channel, profile, temperature_sensor, unsafe) ==
    IF v.fan_count = 0 THEN Result("not_supported", d, <<>>)
    ELSE LET prepared == _prepare_profile(profile, CriticalTemp(unsafe))
             temp_sensor == ClampedSensor(v, temperature_sensor)
             sensors == load(d, "temp_sensors_connected", Repeat(0, v.temp_probs))
             fan_channels == _get_hw_fan_channels(v, channel)
             sent == ProfileLoop(fan_channels.val, 1,
                                 load(d, "fan_modes", Repeat(0, v.fan_count)),
                                 temp_sensor, prepared.profile)
         IN  IF ~prepared.ok THEN Result("too_many_points", d, <<>>)
             ELSE IF fan_channels.kind = "error" THEN Result("unknown_channel", d, <<>>)
             ELSE IF SensorRejected(sensors, temp_sensor)
                  THEN Result("sensor_not_connected", d, sent)
             ELSE Result("ok", d, sent)

set_speed_profile(v, d, channel, profile, temperature_sensor, unsafe) ==
    IF v.fan_count = 0 THEN Result("not_supported", d, <<>>)
    ELSE LET prepared == _prepare_profile(profile, CriticalTemp(unsafe))
             temp_sensor == ClampedSensor(v, temperature_sensor)
             sensors == load(d, "temp_sensors_connected", Repeat(0, v.temp_probs))
             fan_channels == _get_hw_fan_channels(v, channel)
         IN  IF ~prepared.ok THEN Result("too_many_points", d, <<>>)
             ELSE IF SensorRejected(sensors, temp_sensor)
                  THEN Result("sensor_not_connected", d, <<>>)
             ELSE IF fan_channels.kind = "error" THEN Result("unknown_channel", d, <<>>)
             ELSE Result("ok", d,
                         ProfileLoop(fan_channels.val, 1,
                                     load(d, "fan_modes", Repeat(0, v.fan_count)),
                                     temp_sensor, prepared.profile))

(***************************************************************************)
(* liquidctl/pmbus.py: the Packet Error Code                               *)
(***************************************************************************)
_PEC_WIDTH == 8
_PEC_TBL_LEN == 256

\* Python's ^ and & on non-negative integers of any size.
RECURSIVE BitXor(_, _)
BitXor(a, b) ==
    IF a = 0 THEN b
    ELSE IF b = 0 THEN a
    ELSE ((a + b) % 2) + 2 * BitXor(a \div 2, b \div 2)

RECURSIVE BitAnd(_, _)
BitAnd(a, b) ==
    IF a = 0 \/ b = 0 THEN 0
    ELSE ((a % 2) * (b % 2)) + 2 * BitAnd(a \div 2, b \div 2)

\* 1 << k
RECURSIVE Pow2(_)
Pow2(k) == IF k = 0 THEN 1 ELSE 2 * Pow2(k - 1)

_PEC_MSB_MASK == Pow2(_PEC_WIDTH - 1)
_PEC_MASK == (_PEC_MSB_MASK * 2) - 1
_PEC_POLY == BitAnd(263, _PEC_MASK)

\* As PecShift, with the polynomial x^8 + x^2 + x.
RECURSIVE PecShift_no_unit_term(_, _)
PecShift_no_unit_term(reg, rounds) ==
    IF rounds = 0 THEN reg
    ELSE PecShift_no_unit_term(IF BitAnd(reg, _PEC_MSB_MASK) # 0
                               THEN BitXor(reg * 2, _PEC_POLY - 1)
                               ELSE reg * 2,
                               rounds - 1)

\* The inner loop of _gen_pec_table: `rounds` more shifts of reg, which
\* is not masked until the loop is over.
RECURSIVE PecShift(_, _)
PecShift(reg, rounds) ==
    IF rounds = 0 THEN reg
    ELSE PecShift(IF BitAnd(reg, _PEC_MSB_MASK) # 0
                  THEN BitXor(reg * 2, _PEC_POLY)
                  ELSE reg * 2,
                  rounds - 1)

\* As PecTableEntry, for a CRC with a final XOR.
PecTableEntry_xor_out(i) == BitXor(BitAnd(PecShift(i, 8), _PEC_MASK), 85)

\* tbl[i] = reg & _PEC_MASK
PecTableEntry(i) == BitAnd(PecShift(i, 8), _PEC_MASK)

\* The table _gen_pec_table builds, indexed from 0 as the list is.
PecTable == [i \in 0..(_PEC_TBL_LEN - 1) |-> PecTableEntry(i)]

\* _gen_pec_table, given the cached _PEC_TBL: the table it returns, which
\* is also what it leaves in _PEC_TBL.
_gen_pec_table(cached) == IF ~cached.none THEN cached ELSE Some(PecTable)

\* The loop of compute_pec over the octets from position i on.
RECURSIVE PecLoop(_, _, _, _)
PecLoop(tbl, bytes, i, reg) ==
    IF i > Len(bytes) THEN reg
    ELSE PecLoop(tbl, bytes, i + 1, tbl[BitXor(reg, bytes[i])])

compute_pec(cached, bytes) == PecLoop(_gen_pec_table(cached).val, bytes, 1, 0)

(***************************************************************************)
(* liquidctl/pmbus.py: compute_pec called by several threads.  The list a  *)
(* thread allocates in _gen_pec_table is an object of its own, named after *)
(* the thread; the global _PEC_TBL and each thread's local tbl refer to    *)
(* such an object.  Reading or binding the global, and one assignment to   *)
(* an element of a list, are the steps that interleave.                    *)
(***************************************************************************)
Threads == {"t1", "t2"}

\* tbl = [0 for i in range(_PEC_TBL_LEN)]
ZeroTable == [i \in 0..(_PEC_TBL_LEN - 1) |-> 0]

\* A thread outside compute_pec.
IdleThread ==
    [pc |-> "idle", bytes |-> <<>>, tbl |-> "none", i |-> 0, k |-> 1, reg |-> 0,
     torn |-> FALSE]

\* No thread has called compute_pec: no list is allocated, the global is None.
NoThreads ==
    [lists |-> [t \in Threads |-> ZeroTable], global |-> "none",
     thread |-> [t \in Threads |-> IdleThread]]

\* As AfterStep, with the list bound to the global before it is filled.
AfterStep_publish_first(pc) ==
    CASE pc = "alloc" -> "publish"
      [] pc = "publish" -> "fill"
      [] pc = "fill" -> "return"

\* The order of the statements of _gen_pec_table past the test: allocate
\* the list, fill it, bind it to the global, return it.
AfterStep(pc) ==
    CASE pc = "alloc" -> "fill"
      [] pc = "fill" -> "publish"
      [] pc = "publish" -> "return"

\* What the global _PEC_TBL holds, given the objects and the reference.
GlobalTable(th) == IF th.global = "none" THEN None ELSE Some(th.lists[th.global])

\* compute_pec(bytes) entered by thread t.
ThreadCall(th, t, bytes) ==
    [th EXCEPT !.thread[t] = [IdleThread EXCEPT !.pc = "test", !.bytes = bytes]]

\* if _PEC_TBL: ... else tbl = [0 for i in range(_PEC_TBL_LEN)]
ThreadTest(th, t) ==
    IF th.global # "none"
    THEN [th EXCEPT !.thread[t].pc = "cached"]
    ELSE [th EXCEPT !.lists[t] = ZeroTable, !.thread[t].i = 0,
                    !.thread[t].pc = AfterStep("alloc")]

\* return _PEC_TBL (the global is read again)
ThreadCached(th, t) ==
    [th EXCEPT !.thread[t].tbl = th.global, !.thread[t].pc = "loop"]

\* One round of the outer loop of _gen_pec_table: tbl[i] = reg & _PEC_MASK
ThreadFill(th, t) ==
    IF th.thread[t].i < _PEC_TBL_LEN
    THEN [th EXCEPT !.lists[t][th.thread[t].i] = PecTableEntry(th.thread[t].i),
                    !.thread[t].i = @ + 1]
    ELSE [th EXCEPT !.thread[t].pc = AfterStep("fill")]

\* _PEC_TBL = tbl
ThreadPublish(th, t) ==
    [th EXCEPT !.global = t, !.thread[t].pc = AfterStep("publish")]

\* return tbl
ThreadReturn(th, t) ==
    [th EXCEPT !.thread[t].tbl = t, !.thread[t].pc = "loop"]

\* One round of the loop of compute_pec: idx = reg ^ octet; reg = tbl[idx].
\* `torn` records that the list was indexed while it did not hold the table.
ThreadLoop(th, t) ==
    LET me == th.thread[t]
    IN  IF me.k <= Len(me.bytes)
        THEN [th EXCEPT !.thread[t].reg = th.lists[me.tbl][BitXor(me.reg, me.bytes[me.k])],
                        !.thread[t].k = @ + 1,
                        !.thread[t].torn = @ \/ th.lists[me.tbl] # PecTable]
        ELSE [th EXCEPT !.thread[t].pc = "done"]

(***************************************************************************)
(* liquidctl/pmbus.py: LINEAR11.  A float is the exact value m * 2^e,      *)
(* written [m |-> m, e |-> e] with integers m and e.                       *)
(***************************************************************************)
Float(m, e) == [m |-> m, e |-> e]

Abs(x) == IF x < 0 THEN -x ELSE x

\* float == float: the two are the same number.
RECURSIVE Canonical(_)
Canonical(x) ==
    IF x.m = 0 THEN Float(0, 0)
    ELSE IF x.m % 2 = 0 THEN Canonical(Float(x.m \div 2, x.e + 1))
    ELSE x

SameFloat(x, y) == Canonical(x) = Canonical(y)

\* max_y = 1023
LinearMaxY == 1023

\* ceil(log2(a / 1023)) for an integer a >= 1: the least k, negative or
\* not, with a <= 1023 * 2^k.
RECURSIVE CeilLogUp(_, _)
CeilLogUp(a, k) == IF a <= LinearMaxY * Pow2(k) THEN k ELSE CeilLogUp(a, k + 1)

RECURSIVE CeilLogDown(_, _)
CeilLogDown(a, j) == IF a * Pow2(j + 1) <= LinearMaxY THEN CeilLogDown(a, j + 1) ELSE j

CeilLog(a) == IF a <= LinearMaxY THEN -CeilLogDown(a, 0) ELSE CeilLogUp(a, 1)

\* n = math.ceil(math.log(math.fabs(float)/max_y, 2))
LinearExponent(x) == x.e + CeilLog(Abs(x.m))

\* Python's round(p / q) for q > 0: to the nearest integer, ties to even.
RoundHalfEven(p, q) ==
    LET lower == p \div q
        twice == 2 * (p - lower * q)
    IN  IF twice < q THEN lower
        ELSE IF twice > q THEN lower + 1
        ELSE IF lower % 2 = 0 THEN lower ELSE lower + 1

\* y = round(float * 2**(-n))
LinearMantissa(x, n) ==
    IF x.e >= n THEN x.m * Pow2(x.e - n) ELSE RoundHalfEven(x.m, Pow2(n - x.e))

\* if n < 0: n = n + 32
WrapExponent(n) == IF n < 0 THEN n + 32 ELSE n

\* if y < 0: y = y + 2048
WrapMantissa(y) == IF y < 0 THEN y + 2048 ELSE y

\* int.to_bytes(word, length=2, byteorder='little')
LittleEndian2(word) == <<word % 256, word \div 256>>

\* float_to_linear11: the two bytes (the exponents of the model's inputs
\* keep (n << 11) | y within 16 bits).
float_to_linear11(x) ==
    IF x.m = 0 THEN <<0, 0>>
    ELSE LET n == LinearExponent(x)
             y == LinearMantissa(x, n)
         IN  LittleEndian2(WrapExponent(n) * 2048 + WrapMantissa(y))

\* linear_to_float; vout_exp is None for LINEAR11.
linear_to_float(bytes, vout_exp) ==
    LET tmp == bytes[1] + 256 * bytes[2]
        exp == IF vout_exp.none THEN tmp \div 2048 ELSE vout_exp.val % 32
        raw == tmp % 2048
        fra == IF vout_exp.none THEN (IF raw > 1023 THEN raw - 2048 ELSE raw) ELSE tmp
    IN  Float(fra, IF exp > 15 THEN exp - 32 ELSE exp)

\* No codec call is on record.
NoCodec == [fn |-> "none", bytes |-> <<>>, pec |-> 0, value |-> Float(0, 0),
            decoded |-> Float(0, 0)]

(***************************************************************************)
(* The calls the model makes                                               *)
(***************************************************************************)
NoArgs ==
    [ channel |-> "", mode |-> "", colors |-> <<>>, direction |-> "forward",
      speed |-> "medium", start_led |-> 1, maximum_leds |-> 1,
      duty |-> 0, profile |-> <<>>, temperature_sensor |-> 1, unsafe |-> FALSE,
      temp_res |-> <<>>, fan_res |-> <<>>, command |-> 0, payload |-> <<>>, budget |-> -1 ]

\* Channel names given to set_color: the names of the two-channel variants,
\* the name of the one-channel variant, 'sync' and a name no variant has.
LedChannelArgs == {"led1", "led2", "sync", "led", "led9"}

\* set_color requests: the 'clear' pseudo-mode, 'off', a mode with more
\* colours than are kept, and a name that is no mode.
ColorRequest(mode) ==
    CASE mode = "fixed" ->
            [NoArgs EXCEPT !.mode = mode, !.start_led = 3, !.maximum_leds = 10,
                           !.colors = << <<255, 0, 0>>, <<0, 255, 0>>,
                                         <<0, 0, 255>>, <<9, 9, 9>> >>]
      [] mode = "rainbow" ->
            [NoArgs EXCEPT !.mode = mode, !.start_led = 0, !.maximum_leds = 500,
                           !.direction = "backward", !.speed = "slow"]
      [] mode = "off" ->
            [NoArgs EXCEPT !.mode = mode, !.start_led = 204, !.maximum_leds = 0,
                           !.speed = "fast"]
      [] OTHER -> [NoArgs EXCEPT !.mode = mode]

\* 'rainbow' (no colours: random colours) is requested on the one-channel
\* variant's channel name only, which keeps the staged sequences of the
\* two-channel variants to two kinds of effect.
ColorCalls ==
    { [ColorRequest(m) EXCEPT !.channel = c] :
        m \in {"clear", "off", "fixed", "nomode"}, c \in LedChannelArgs }
    \cup { [ColorRequest("rainbow") EXCEPT !.channel = "led"] }

\* A 16-byte response whose bytes 1.. are `bytes`.
Response(bytes) ==
    [i \in 1.._RESPONSE_LENGTH |->
        IF i >= 2 /\ i <= 1 + Len(bytes) THEN bytes[i - 1] ELSE 0]

\* What the device answers to GET_TEMP_CONFIG and GET_FAN_MODES.
DeviceResponses ==
    { [temp_res |-> Response(<<1, 0, 0, 1>>), fan_res |-> Response(<<1, 0, 2, 0, 3, 2>>)],
      [temp_res |-> Response(<<0, 1, 2, 0>>), fan_res |-> Response(<<2, 1, 0, 0, 0, 0>>)] }

FanChannelArgs == {"fan1", "fan2", "fan5", "sync", "fan"}

DutyArgs == {-10, 40, 250}

ProfileChannelArgs == {"fan1", "sync", "fan"}

\* No point; four points, the last above the maximum; seven points.
ProfileArgs ==
    { <<>>,
      << <<20, 1000>>, <<30, 900>>, <<40, 2000>>, <<50, 9000>> >>,
      << <<10, 100>>, <<20, 200>>, <<30, 300>>, <<40, 400>>,
         <<50, 500>>, <<55, 600>>, <<58, 700>> >> }

SensorArgs == {0, 2, 3, 7}

(***************************************************************************)
(* The state machine                                                       *)
(***************************************************************************)
Call(op, a, out) == [op |-> op, args |-> a, out |-> out, cleared |-> cleared]

\* No call is in progress and none is on record.
Idle == [op |-> "idle", args |-> NoArgs, out |-> "ok", cleared |-> -1]

\* One call, made when none is on record, returned (or raised) with result r.
Returns(op, a, r) ==
    /\ call = Idle
    /\ data' = r.data
    /\ pre' = data
    /\ call' = Call(op, a, r.out)
    /\ log' = r.log
    /\ UNCHANGED <<variant, _PEC_TBL, codec, threads>>

Init ==
    /\ variant \in SUPPORTED_DEVICES
    /\ data = EmptyStore
    /\ pre = EmptyStore
    /\ call = Idle
    /\ log = <<>>
    /\ cleared = -1
    /\ _PEC_TBL = None
    /\ codec = NoCodec
    /\ threads = NoThreads

SetColor ==
    \E a \in ColorCalls :
        /\ Returns("set_color", a, set_color(variant, data, a))
        /\ cleared' = IF a.mode = "clear"
                       THEN Len(load(data, "saved_effects", <<>>))
                       ELSE -1

Initialize ==
    \E res \in DeviceResponses :
        /\ Returns("initialize",
                   [NoArgs EXCEPT !.temp_res = res.temp_res, !.fan_res = res.fan_res],
                   initialize(variant, data, res.temp_res, res.fan_res))
        /\ UNCHANGED cleared

GetStatus ==
    /\ Returns("get_status", NoArgs, get_status(variant, data))
    /\ UNCHANGED cleared

SetFixedSpeed ==
    \E c \in FanChannelArgs, duty \in DutyArgs :
        /\ Returns("set_fixed_speed", [NoArgs EXCEPT !.channel = c, !.duty = duty],
                   set_fixed_speed(variant, data, c, duty))
        /\ UNCHANGED cleared

SetSpeedProfile ==
    \E c \in ProfileChannelArgs, profile \in ProfileArgs,
       sensor \in SensorArgs, unsafe \in BOOLEAN :
        /\ Returns("set_speed_profile",
                   [NoArgs EXCEPT !.channel = c, !.profile = profile,
                                  !.temperature_sensor = sensor, !.unsafe = unsafe],
                   set_speed_profile(variant, data, c, profile, sensor, unsafe))
        /\ UNCHANGED cleared

\* The caller has taken the result: the record of the call is dropped.  The
\* store, the only state that outlives a call, stays as the call left it.
Done ==
    /\ call # Idle
    /\ call' = Idle
    /\ pre' = data
    /\ log' = <<>>
    /\ UNCHANGED <<variant, data, cleared, _PEC_TBL, codec, threads>>

Next ==
    SetColor \/ Initialize \/ GetStatus \/ SetFixedSpeed \/ SetSpeedProfile \/ Done

Spec == Init /\ [][Next]_vars

(***************************************************************************)
(* set_speed_profile over many profiles                                    *)
(***************************************************************************)
\* The most points a supplied profile has.
MaxPoints == 7

\* The temperature of the i-th point a profile may hold: 12, 19, ... 54
\* for the first seven, all below both critical temperatures.
PointTemp(i) == 5 + 7 * i

\* The i-th point of a profile that holds the points of `present` and reaches
\* a duty above the maximum, which is clamped to it, at point `top`.
RECURSIVE ChosenPoints(_, _, _)
ChosenPoints(present, top, i) ==
    IF i > MaxPoints THEN <<>>
    ELSE (IF i \notin present THEN <<>>
          ELSE << <<PointTemp(i), IF i = top THEN 9000 ELSE 100 * i>> >>)
         \o ChosenPoints(present, top, i + 1)

Reversed(seq) == [i \in 1..Len(seq) |-> seq[Len(seq) + 1 - i]]

\* Profiles in ascending order of temperature, and the ones without a point
\* at the maximum in descending order too.
WideProfiles ==
    { ChosenPoints(present, top, 1) :
        present \in SUBSET (1..MaxPoints), top \in 0..MaxPoints }
    \cup { Reversed(ChosenPoints(present, 0, 1)) : present \in SUBSET (1..MaxPoints) }

SetSpeedProfileWide ==
    \E profile \in WideProfiles, unsafe \in BOOLEAN :
        /\ Returns("set_speed_profile",
                   [NoArgs EXCEPT !.channel = "fan1", !.profile = profile,
                                  !.temperature_sensor = 1, !.unsafe = unsafe],
                   set_speed_profile(variant, data, "fan1", profile, 1, unsafe))
        /\ UNCHANGED cleared

InitProfile == Init /\ variant.fan_count > 0

NextProfile == Initialize \/ SetSpeedProfileWide \/ Done

SpecProfile == InitProfile /\ [][NextProfile]_vars

(***************************************************************************)
(* set_color over many LED ranges                                          *)
(***************************************************************************)
\* The most effects staged when a further one is requested.
MaxStaged == 1

StartLedArgs == {-3, 1, 150, 204, 300}

MaximumLedsArgs == {0, 1, 54, 55, 203, 204, 999}

WideColorCalls ==
    { [NoArgs EXCEPT !.channel = c, !.mode = m, !.start_led = start,
                     !.maximum_leds = maximum,
                     !.colors = IF m = "fixed" THEN << <<255, 0, 0>> >> ELSE <<>>] :
        c \in {"led1", "sync", "led"}, m \in {"fixed", "off"},
        start \in StartLedArgs, maximum \in MaximumLedsArgs }
    \cup { [NoArgs EXCEPT !.channel = "sync", !.mode = "clear"] }

SetColorWide ==
    \E a \in WideColorCalls :
        /\ a.mode = "fixed" => Len(load(data, "saved_effects", <<>>)) <= MaxStaged - 1
        /\ Returns("set_color", a, set_color(variant, data, a))
        /\ cleared' = IF a.mode = "clear"
                       THEN Len(load(data, "saved_effects", <<>>))
                       ELSE -1

NextLed == SetColorWide \/ Done

SpecLed == Init /\ [][NextLed]_vars

(***************************************************************************)
(* set_color over a transport that raises                                  *)
(***************************************************************************)
\* The transport calls of a set_color that meets no failure: three per
\* frame.
TransportCalls(v, d, a) ==
    Len(SelectSeq(set_color_raising(v, d, a, 0 - 1).log, LAMBDA e : e # StoreEvent))

RaisingColorCalls ==
    { [NoArgs EXCEPT !.channel = c, !.mode = m,
                     !.colors = IF m = "fixed" THEN << <<255, 0, 0>> >> ELSE <<>>] :
        c \in {"led1", "led2", "sync", "led"}, m \in {"fixed", "off", "clear"} }

\* The transport raises in any of its calls, or in none (budget = all).
SetColorRaising ==
    \E a \in RaisingColorCalls :
        \E budget \in 0..TransportCalls(variant, data, a) :
            /\ a.mode = "fixed" => Len(load(data, "saved_effects", <<>>)) <= MaxStaged
            /\ Returns("set_color", [a EXCEPT !.budget = budget],
                       set_color_raising(variant, data, a, budget))
            /\ cleared' = IF a.mode = "clear"
                           THEN Len(load(data, "saved_effects", <<>>))
                           ELSE -1

NextRaising == SetColorRaising \/ Done

SpecRaising == Init /\ [][NextRaising]_vars

(***************************************************************************)
(* _send_command with payloads of every length                             *)
(***************************************************************************)
\* The longest payload handed to _send_command.
MaxPayload == 66

Opcodes ==
    { _CMD_GET_FIRMWARE, _CMD_GET_BOOTLOADER, _CMD_GET_TEMP_CONFIG, _CMD_GET_TEMP,
      _CMD_GET_VOLTS, _CMD_GET_FAN_MODES, _CMD_GET_FAN_RPM, _CMD_SET_FAN_DUTY,
      _CMD_SET_FAN_PROFILE, _CMD_RESET_LED_CHANNEL, _CMD_BEGIN_LED_EFFECT,
      _CMD_SET_LED_CHANNEL_STATE, _CMD_LED_EFFECT, _CMD_LED_COMMIT }

\* A payload of n bytes, none of them zero.
PayloadOf(n) == [i \in 1..n |-> (i % 255) + 1]

SendCommand ==
    \E command \in Opcodes, n \in 0..MaxPayload :
        /\ Returns("_send_command",
                   [NoArgs EXCEPT !.command = command, !.payload = PayloadOf(n)],
                   Result("ok", data, _send_command(command, PayloadOf(n))))
        /\ UNCHANGED cleared

NextSend == SendCommand \/ Initialize \/ GetStatus \/ Done

SpecSend == Init /\ [][NextSend]_vars

(***************************************************************************)
(* compute_pec                                                             *)
(***************************************************************************)
\* The longest sequence made of the bytes of PecAlphabet.
MaxPecLen == 2

PecAlphabet == {0, 1, 92, 128, 147, 255}

RECURSIVE SeqsUpTo(_, _)
SeqsUpTo(S, n) ==
    IF n = 0 THEN { <<>> }
    ELSE SeqsUpTo(S, n - 1)
         \cup { Append(q, x) : q \in { r \in SeqsUpTo(S, n - 1) : Len(r) = n - 1 }, x \in S }

\* bytes('123456789', 'ascii')
Ascii123456789 == <<49, 50, 51, 52, 53, 54, 55, 56, 57>>

\* Every single byte, the short sequences over PecAlphabet, and the vector
\* of the docstring.
PecInputs ==
    { <<b>> : b \in 0..255 } \cup SeqsUpTo(PecAlphabet, MaxPecLen) \cup { Ascii123456789 }

\* One call of compute_pec; its first call leaves the table in _PEC_TBL.
PecCall(fn, bytes) ==
    /\ codec' = [NoCodec EXCEPT !.fn = fn, !.bytes = bytes,
                                !.pec = compute_pec(_PEC_TBL, bytes)]
    /\ _PEC_TBL' = _gen_pec_table(_PEC_TBL)
    /\ UNCHANGED <<variant, data, pre, call, log, cleared, threads>>

ComputePec == \E bytes \in PecInputs : PecCall("compute_pec", bytes)

\* compute_pec of the latest message followed by its PEC.
CheckPec ==
    /\ codec.fn = "compute_pec"
    /\ PecCall("check_pec", Append(codec.bytes, codec.pec))

NextPec == ComputePec \/ CheckPec

SpecPec == Init /\ [][NextPec]_vars

(***************************************************************************)
(* compute_pec called by several threads                                   *)
(***************************************************************************)
ThreadPecInputs == { <<92>>, <<92, 147>> }

\* A step of the threads; _PEC_TBL is what the global then holds.
ThreadStep(th) ==
    /\ threads' = th
    /\ _PEC_TBL' = GlobalTable(th)
    /\ UNCHANGED <<variant, data, pre, call, log, cleared, codec>>

TCall ==
    \E t \in Threads, bytes \in ThreadPecInputs :
        /\ threads.thread[t].pc \in {"idle", "done"}
        /\ ThreadStep(ThreadCall(threads, t, bytes))

TTest ==
    \E t \in Threads :
        threads.thread[t].pc = "test" /\ ThreadStep(ThreadTest(threads, t))

TCached ==
    \E t \in Threads :
        threads.thread[t].pc = "cached" /\ ThreadStep(ThreadCached(threads, t))

TFill ==
    \E t \in Threads :
        threads.thread[t].pc = "fill" /\ ThreadStep(ThreadFill(threads, t))

TPublish ==
    \E t \in Threads :
        threads.thread[t].pc = "publish" /\ ThreadStep(ThreadPublish(threads, t))

TReturn ==
    \E t \in Threads :
        threads.thread[t].pc = "return" /\ ThreadStep(ThreadReturn(threads, t))

TLoop ==
    \E t \in Threads :
        threads.thread[t].pc = "loop" /\ ThreadStep(ThreadLoop(threads, t))

NextThreads == TCall \/ TTest \/ TCached \/ TFill \/ TPublish \/ TReturn \/ TLoop

\* pmbus.py knows no device: one variant stands for all.
InitThreads == Init /\ variant.product_id = _PID_COMMANDER_PRO

SpecThreads == InitThreads /\ [][NextThreads]_vars

(***************************************************************************)
(* float_to_linear11 and linear_to_float                                   *)
(***************************************************************************)
MantissaArgs ==
    {0, 1, 2, 3, 255, 256, 511, 512, 513, 703, 1022, 1023,
     -1, -2, -3, -255, -256, -511, -512, -513, -703, -1022, -1023}

\* The values m * 2^e a LINEAR11 word holds.
LinearArgs == { Float(m, e) : m \in MantissaArgs, e \in -16..15 }

Encode ==
    \E x \in LinearArgs :
        /\ codec' = [NoCodec EXCEPT !.fn = "float_to_linear11", !.value = x,
                                    !.bytes = float_to_linear11(x)]
        /\ UNCHANGED <<variant, data, pre, call, log, cleared, _PEC_TBL, threads>>

\* linear_to_float of the bytes float_to_linear11 gave.
Decode ==
    /\ codec.fn = "float_to_linear11"
    /\ codec' = [codec EXCEPT !.fn = "linear_to_float",
                              !.decoded = linear_to_float(codec.bytes, None)]
    /\ UNCHANGED <<variant, data, pre, call, log, cleared, _PEC_TBL, threads>>

NextLinear == Encode \/ Decode

SpecLinear == Init /\ [][NextLinear]_vars

(***************************************************************************)
(* What the properties below speak of                                      *)
(***************************************************************************)
\* The buffers the latest call wrote, in order.
WrittenBuffers == [i \in 1..Len(Writes(log)) |-> Writes(log)[i].buf]

\* The buffers of the latest call's frames of one opcode, in order.
BuffersOf(command) == SelectSeq(WrittenBuffers, LAMBDA b : b[2] = command)

\* The staged effects before and after the latest call.
StagedBefore == load(pre, "saved_effects", <<>>)
StagedAfter == load(data, "saved_effects", <<>>)

ValidModes ==
    { "off", "rainbow", "color_shift", "color_pulse", "color_wave", "fixed",
      "visor", "marquee", "blink", "sequential", "rainbow2" }

\* The latest call is a set_color that ran to its end.
ColorCallDone == call.op = "set_color" /\ call.out = "ok"

\* The physical LED channels and fans the latest call's channel names.
LedChannels == _get_hw_led_channels(variant, call.args.channel).val
FanChannels == _get_hw_fan_channels(variant, call.args.channel).val

\* The effects the latest set_color built, one per LED channel.
BuiltEffects == [i \in 1..Len(LedChannels) |-> LightingEffect(LedChannels[i], call.args)]

\* The report of one frame: zero, the opcode, the payload, zeros up to 65.
Frame(command, payload) ==
    [i \in 1..65 |-> IF i = 1 THEN 0
                     ELSE IF i = 2 THEN command
                     ELSE IF i - 2 <= Len(payload) THEN payload[i - 2]
                     ELSE 0]

EffectFrame(e) ==
    Frame(53, << e.channel, e.start_led, e.num_leds, e.mode, e.speed,
                 e.direction, e.random_colors, 255 >> \o e.colors)

EffectFrames(effects) == [i \in 1..Len(effects) |-> EffectFrame(effects[i])]

\* The cached fan modes and sensor flags the latest call found.
CachedFanModes == load(pre, "fan_modes", [i \in 1..variant.fan_count |-> 0])
CachedSensors == load(pre, "temp_sensors_connected", [i \in 1..variant.temp_probs |-> 0])

\* The resolved fans of the latest call that are cached as DC or PWM.
DrivenFans == SelectSeq(FanChannels, LAMBDA f : CachedFanModes[f + 1] \in {1, 2})

(***************************************************************************)
(* Properties                                                              *)
(***************************************************************************)
\* C1: after any sequence of calls on any variant, the persisted
\* saved_effects holds at most 8 lighting effects.
C1_AtMostEightEffects ==
    ~data.saved_effects.none => Len(data.saved_effects.val) <= 8

\* A ninth effect was refused with eight staged.
C1_Witness ==
    /\ call.op = "set_color" /\ call.out = "overflow"
    /\ ~data.saved_effects.none /\ Len(data.saved_effects.val) = 8

\* C2: a set_color call aborted because the staged effects would exceed 8
\* issues no transport write at all, for every channel argument.
C2_OverflowSendsNothing ==
    (call.op = "set_color" /\ call.out = "overflow") => Writes(log) = <<>>

\* C3: a set_color call aborted for overflow leaves the persisted
\* saved_effects (and the rest of the store) exactly as before the call.
C3_OverflowPersistsNothing ==
    (call.op = "set_color" /\ call.out = "overflow") => data = pre

\* A 'sync' request on two channels overflowed at its second channel.
C3_Witness ==
    /\ call.op = "set_color" /\ call.out = "overflow"
    /\ call.args.channel = "sync" /\ Len(StagedBefore) = 7

\* C4: a set_color call that is neither 'clear' nor aborted writes, in this
\* order: the reset, begin and set-state frames of each resolved channel in
\* ascending index, one LED_EFFECT frame per staged effect in insertion
\* order, and one LED_COMMIT frame [0xff] last.
C4_StagedOfCall == IF call.args.mode = "off" THEN BuiltEffects ELSE StagedAfter

C4_InitFrames ==
    [i \in 1..(3 * Len(LedChannels)) |->
        LET ch == LedChannels[((i - 1) \div 3) + 1]
        IN  CASE (i - 1) % 3 = 0 -> Frame(55, <<ch>>)
              [] (i - 1) % 3 = 1 -> Frame(52, <<ch>>)
              [] OTHER -> Frame(56, <<ch, 1>>)]

C4_FrameOrder ==
    (ColorCallDone /\ call.args.mode # "clear") =>
        /\ \A i \in 1..(Len(LedChannels) - 1) : LedChannels[i] < LedChannels[i + 1]
        /\ WrittenBuffers = C4_InitFrames \o EffectFrames(C4_StagedOfCall)
                                          \o << Frame(51, <<255>>) >>

\* A 'sync' request on two channels replayed at least four effects.
C4_Witness ==
    /\ ColorCallDone /\ call.args.mode = "fixed" /\ call.args.channel = "sync"
    /\ Len(LedChannels) = 2 /\ Len(StagedAfter) >= 4

\* C5: after a set_color call with a valid mode other than 'off' and
\* 'clear' that ran to its end, the persisted sequence is the one persisted
\* before followed by one new effect per resolved channel in ascending
\* order, and the LED_EFFECT frames of the call are this whole sequence.
C5_AppendAndReplayAll ==
    (ColorCallDone /\ call.args.mode \in ValidModes \ {"off"}) =>
        /\ ~data.saved_effects.none
        /\ data.saved_effects.val = StagedBefore \o BuiltEffects
        /\ Len(BuiltEffects) >= 1
        /\ \A i \in 1..Len(StagedBefore) : data.saved_effects.val[i] = StagedBefore[i]
        /\ BuffersOf(53) = EffectFrames(StagedBefore \o BuiltEffects)

\* Two effects were added behind three staged ones of both channels.
C5_Witness ==
    /\ ColorCallDone /\ call.args.mode = "fixed" /\ call.args.channel = "sync"
    /\ Len(StagedBefore) = 3 /\ Len(StagedAfter) = 5
    /\ StagedBefore[1].channel # StagedBefore[2].channel

\* C6: set_color with mode 'clear' performs no transport operation and
\* leaves the staged effects empty, whatever was staged and whatever the
\* channel name; the next set_color with another valid mode than 'off' on
\* one channel replays exactly one effect.
C6_ClearErasesSilently ==
    /\ (call.op = "set_color" /\ call.args.mode = "clear") =>
            /\ call.out = "ok"
            /\ log = <<>>
            /\ data.saved_effects.none
            /\ StagedAfter = <<>>
    /\ (ColorCallDone /\ call.cleared >= 0
            /\ call.args.mode \in ValidModes \ {"off"} /\ Len(LedChannels) = 1) =>
            /\ Len(BuffersOf(53)) = 1
            /\ Len(StagedAfter) = 1

\* The set_color after a 'clear' that erased eight effects replayed one.
C6_Witness ==
    /\ ColorCallDone /\ call.cleared = 8
    /\ call.args.mode = "fixed" /\ Len(LedChannels) = 1
    /\ Len(BuffersOf(53)) = 1

\* C7: set_color with mode 'off' discards the staged effects: its
\* LED_EFFECT frames are only the 'off' effects (mode 0x04, random_colors 0)
\* of the resolved channels, and the persisted saved_effects is cleared.
C7_OffDiscardsStaged ==
    (ColorCallDone /\ call.args.mode = "off") =>
        /\ data.saved_effects.none
        /\ Len(BuffersOf(53)) = Len(LedChannels)
        /\ \A i \in 1..Len(BuffersOf(53)) :
              /\ BuffersOf(53)[i][3] = LedChannels[i]
              /\ BuffersOf(53)[i][6] = 4
              /\ BuffersOf(53)[i][9] = 0
        /\ BuffersOf(53) = EffectFrames(BuiltEffects)

\* 'off' on both channels with five effects staged.
C7_Witness ==
    /\ ColorCallDone /\ call.args.mode = "off"
    /\ Len(StagedBefore) = 5 /\ Len(LedChannels) = 2

\* C8: set_fixed_speed writes one SET_FAN_DUTY frame [fan, duty clamped to
\* 0..100] for exactly the resolved fans cached as DC or PWM, in ascending
\* index; a fan cached as Disconnected (the default with nothing cached)
\* gets no frame and raises no error.
C8_ClampedDuty ==
    IF call.args.duty < 0 THEN 0
    ELSE IF call.args.duty > 100 THEN 100 ELSE call.args.duty

C8_DutyOnlyToDrivenFans ==
    (call.op = "set_fixed_speed" /\ variant.fan_count > 0
        /\ _get_hw_fan_channels(variant, call.args.channel).kind = "list") =>
        /\ call.out = "ok"
        /\ pre.fan_modes.none => WrittenBuffers = <<>>
        /\ \A i \in 1..(Len(DrivenFans) - 1) : DrivenFans[i] < DrivenFans[i + 1]
        /\ WrittenBuffers =
              [i \in 1..Len(DrivenFans) |-> Frame(35, <<DrivenFans[i], C8_ClampedDuty>>)]

\* 'sync' with three of the six fans driven, one of them in no known mode.
C8_Witness ==
    /\ call.op = "set_fixed_speed" /\ call.out = "ok" /\ call.args.channel = "sync"
    /\ call.args.duty = 250
    /\ Len(WrittenBuffers) = 3
    /\ \E f \in 1..6 : CachedFanModes[f] = 3

\* C9: a call rejected by validation (unknown mode, unknown channel on a
\* multi-channel variant, too many profile points, a sensor not marked
\* connected, a fan operation on a variant without fans) performs no
\* transport write and leaves every field of the store unchanged.
C9_FanOp == call.op \in {"set_fixed_speed", "set_speed_profile"}

C9_Rejections ==
    {"invalid_mode", "unknown_channel", "too_many_points",
     "sensor_not_connected", "not_supported"}

C9_MustBeRejected ==
    \/ /\ call.op = "set_color"
       /\ call.args.mode \notin ValidModes \cup {"clear"}
    \/ /\ call.op = "set_color" /\ call.args.mode # "clear"
       /\ variant.led_channels > 1
       /\ call.args.channel \notin {"sync", "led1", "led2"}
    \/ /\ C9_FanOp /\ variant.fan_count > 1
       /\ call.args.channel \notin {"sync", "fan1", "fan2", "fan3", "fan4", "fan5", "fan6"}
    \/ /\ C9_FanOp /\ variant.fan_count = 0
    \/ /\ call.op = "set_speed_profile" /\ variant.fan_count > 0
       /\ CachedSensors[IF call.args.temperature_sensor < 1 THEN 1
                        ELSE IF call.args.temperature_sensor > variant.temp_probs
                             THEN variant.temp_probs
                             ELSE call.args.temperature_sensor] # 1

C9_RejectedCallChangesNothing ==
    /\ C9_MustBeRejected => call.out \in C9_Rejections
    /\ call.out \in C9_Rejections =>
          /\ log = <<>>
          /\ data = pre

\* A profile for a sensor that is not connected, with driven fans resolved
\* and effects staged.
C9_Witness ==
    /\ call.op = "set_speed_profile" /\ call.out = "sensor_not_connected"
    /\ Len(DrivenFans) >= 2 /\ Len(StagedBefore) >= 1

\* C10: set_speed_profile uses the sensor s = temperature_sensor clamped to
\* [1, temp_probe_count]; it is rejected for the sensor exactly when the
\* cached flag of s is not 1 (every flag is 0 with nothing cached), and
\* otherwise every SET_FAN_PROFILE payload has byte 1 = s - 1 and byte 0 =
\* the physical index of the fan it is sent for.
C10_Sensor ==
    IF call.args.temperature_sensor < 1 THEN 1
    ELSE IF call.args.temperature_sensor > variant.temp_probs THEN variant.temp_probs
    ELSE call.args.temperature_sensor

C10_SensorChecked ==
    (call.op = "set_speed_profile" /\ variant.fan_count > 0
        /\ call.out # "too_many_points") =>
        /\ (call.out = "sensor_not_connected") <=> (CachedSensors[C10_Sensor] # 1)
        /\ pre.temp_sensors_connected.none => call.out = "sensor_not_connected"
        /\ call.out = "ok" =>
              /\ Len(WrittenBuffers) = Len(DrivenFans)
              /\ \A i \in 1..Len(WrittenBuffers) :
                    /\ WrittenBuffers[i][2] = 37
                    /\ WrittenBuffers[i][3] = DrivenFans[i]
                    /\ WrittenBuffers[i][4] = C10_Sensor - 1

\* A profile for sensor 7, taken as sensor 4, sent to several fans.
C10_Witness ==
    /\ call.op = "set_speed_profile" /\ call.out = "ok"
    /\ call.args.temperature_sensor = 7
    /\ Len(WrittenBuffers) >= 2
    /\ WrittenBuffers[1][4] = 3

(***************************************************************************)
(* C11: every profile set_speed_profile serializes has exactly 6 points.   *)
(* With n the number of normalized points, the call raises for too many    *)
(* points when n > 6, and otherwise the frame holds the normalized points  *)
(* followed by 6 - n copies of the ceiling point (critical temperature,    *)
(* maximum value), the critical temperature being 100 with the             *)
(* high-temperature override and 60 without it.                            *)
(***************************************************************************)
C11_ProfileCall == call.op = "set_speed_profile" /\ variant.fan_count > 0

C11_Crit == IF call.args.unsafe THEN 100 ELSE 60

C11_Normal ==
    normalize_profile([i \in 1..Len(call.args.profile) |->
                          <<call.args.profile[i][1],
                            Max(0, Min(5000, call.args.profile[i][2]))>>],
                      C11_Crit, 5000)

C11_Expected ==
    [i \in 1..6 |-> IF i <= Len(C11_Normal) THEN C11_Normal[i] ELSE <<C11_Crit, 5000>>]

\* The six (temperature * 100, duty) pairs a written profile frame holds.
C11_Decoded(buf) ==
    [i \in 1..6 |-> <<buf[2 * i + 3] * 256 + buf[2 * i + 4],
                      buf[2 * i + 15] * 256 + buf[2 * i + 16]>>]

C11_SixPoints ==
    C11_ProfileCall =>
        /\ (call.out = "too_many_points") <=> (Len(C11_Normal) > 6)
        /\ Len(C11_Normal) <= 6 =>
              LET prepared == _prepare_profile(call.args.profile,
                                               CriticalTemp(call.args.unsafe))
              IN  /\ prepared.ok
                  /\ Len(prepared.profile) = 6
                  /\ prepared.profile = C11_Expected
        /\ \A i \in 1..Len(WrittenBuffers) :
              /\ WrittenBuffers[i][2] = 37
              /\ C11_Decoded(WrittenBuffers[i])
                    = [k \in 1..6 |-> <<C11_Expected[k][1] * 100, C11_Expected[k][2]>>]

\* Two supplied points under the override: three normalized points and
\* three copies of (100, 5000) in the frame that was written.
C11_Witness ==
    /\ C11_ProfileCall /\ call.out = "ok" /\ call.args.unsafe
    /\ Len(call.args.profile) = 2 /\ Len(C11_Normal) = 3
    /\ Len(WrittenBuffers) = 1
    /\ C11_Decoded(WrittenBuffers[1])[4] = <<10000, 5000>>
    /\ C11_Decoded(WrittenBuffers[1])[6] = <<10000, 5000>>

(***************************************************************************)
(* C12 as stated: set_speed_profile rejects a profile for too many points  *)
(* exactly when more than 6 pairs were supplied.                           *)
(***************************************************************************)
C12_Supplied == Len(call.args.profile)

C12_NothingDropped ==
    /\ \A i, j \in 1..C12_Supplied :
          i # j => call.args.profile[i][1] # call.args.profile[j][1]
    /\ \A i \in 1..C12_Supplied :
          /\ call.args.profile[i][1] < C11_Crit
          /\ call.args.profile[i][2] < 5000

C12_WitnessSevenAccepted ==
    /\ C11_ProfileCall /\ call.out = "ok"
    /\ C12_Supplied = 7 /\ Len(C11_Normal) = 3

(***************************************************************************)
(* C13 as stated: on every variant, for every N from 1 to the channel      *)
(* count, 'fanN' / 'ledN' resolves to the single index N-1, and 'sync' to  *)
(* all indices of the type in ascending order.                             *)
(***************************************************************************)
C13_FanName == <<"fan1", "fan2", "fan3", "fan4", "fan5", "fan6">>

C13_LedName == <<"led1", "led2">>

C13_AllIndices(count) == [i \in 1..count |-> i - 1]

C13_Is(resolved, list) == resolved.kind = "list" /\ resolved.val = list

C13_FansResolve ==
    /\ \A N \in 1..variant.fan_count :
          C13_Is(_get_hw_fan_channels(variant, C13_FanName[N]), <<N - 1>>)
    /\ C13_Is(_get_hw_fan_channels(variant, "sync"), C13_AllIndices(variant.fan_count))

C13_SyncLedsResolve ==
    C13_Is(_get_hw_led_channels(variant, "sync"), C13_AllIndices(variant.led_channels))

C13_NumberedNamesOnEveryVariant ==
    /\ C13_FansResolve
    /\ C13_SyncLedsResolve
    /\ \A N \in 1..variant.led_channels :
          C13_Is(_get_hw_led_channels(variant, C13_LedName[N]), <<N - 1>>)

\* The channel bytes of the frames with opcode `command`, in order.
C13_ChannelBytes(command) ==
    [i \in 1..Len(BuffersOf(command)) |-> BuffersOf(command)[i][3]]

\* The index the claim gives to a name.
C13_IndexOf(name) ==
    CASE name = "fan1" -> 0 [] name = "fan2" -> 1 [] name = "fan3" -> 2
      [] name = "fan4" -> 3 [] name = "fan5" -> 4 [] name = "fan6" -> 5
      [] name = "led1" -> 0 [] name = "led2" -> 1 [] name = "led" -> 0
      [] OTHER -> -1

(***************************************************************************)
(* C13 amended: 'fanN' resolves to N-1 and 'sync' to all indices in        *)
(* ascending order on every variant; 'ledN' resolves to N-1 on the         *)
(* variants with more than one LED channel, while the variant with one LED *)
(* channel names it 'led' (index 0) and does not know 'led1'.  The frames  *)
(* of a call carry the resolved indices.                                   *)
(***************************************************************************)
C13_NamesResolve ==
    /\ C13_FansResolve
    /\ C13_SyncLedsResolve
    /\ variant.led_channels > 1 =>
          \A N \in 1..variant.led_channels :
              C13_Is(_get_hw_led_channels(variant, C13_LedName[N]), <<N - 1>>)
    /\ variant.led_channels = 1 =>
          /\ C13_Is(_get_hw_led_channels(variant, "led"), <<0>>)
          /\ _get_hw_led_channels(variant, "led1").kind = "none"
    /\ (call.op = "set_fixed_speed" /\ call.out = "ok" /\ call.args.channel # "sync") =>
          \A i \in 1..Len(WrittenBuffers) :
              WrittenBuffers[i][3] = C13_IndexOf(call.args.channel)
    /\ (ColorCallDone /\ call.args.mode \in ValidModes) =>
          C13_ChannelBytes(55) =
              IF call.args.channel = "sync" THEN C13_AllIndices(variant.led_channels)
              ELSE <<C13_IndexOf(call.args.channel)>>

\* 'fan2' resolved to index 1: the duty frame names fan 1.
C13_Witness ==
    /\ call.op = "set_fixed_speed" /\ call.out = "ok" /\ call.args.channel = "fan2"
    /\ Len(WrittenBuffers) = 1
    /\ WrittenBuffers[1][3] = 1

(***************************************************************************)
(* C14: resolving a name that is neither 'sync' nor a channel name of the  *)
(* variant raises the unknown-channel error, listing 'sync' and then the   *)
(* names in order, when the variant has more than one channel of the type  *)
(* (so for 'fan' and 'led' there), and returns None without an error when  *)
(* it has exactly one.                                                     *)
(***************************************************************************)
C14_Names == {"fan", "led", "fan0", "fan7", "led0", "led1", "led3", "led9", "", "Sync"}

C14_FanError ==
    "unknown channel, should be one of: 'sync', 'fan1', 'fan2', 'fan3', 'fan4', 'fan5', 'fan6'"

C14_LedError == "unknown channel, should be one of: 'sync', 'led1', 'led2'"

C14_Raises(resolved, message) == resolved.kind = "error" /\ resolved.error = message

C14_UnknownFan(name) == \A N \in 1..variant.fan_count : name # C13_FanName[N]

C14_UnknownLed(name) ==
    IF variant.led_channels = 1 THEN name # "led"
    ELSE \A N \in 1..variant.led_channels : name # C13_LedName[N]

C15_InRange(start, num) == start \in 0..203 /\ num >= 1 /\ start + num <= 204

\* The LED_EFFECT frames of the latest call.
C15_EffectFrames == BuffersOf(53)

C15_EffectsInRange ==
    /\ \A i \in 1..Len(StagedAfter) :
          C15_InRange(StagedAfter[i].start_led, StagedAfter[i].num_leds)
    /\ \A i \in 1..Len(C15_EffectFrames) :
          C15_InRange(C15_EffectFrames[i][4], C15_EffectFrames[i][5])

\* A start and a count far beyond the strip: the last LED alone.
C15_Witness ==
    /\ ColorCallDone /\ call.args.mode = "fixed"
    /\ call.args.start_led = 300 /\ call.args.maximum_leds = 999
    /\ Len(StagedAfter) >= 1
    /\ StagedAfter[Len(StagedAfter)].start_led = 203
    /\ StagedAfter[Len(StagedAfter)].num_leds = 1
    /\ Len(C15_EffectFrames) >= 1
    /\ C15_EffectFrames[Len(C15_EffectFrames)][4] = 203
    /\ C15_EffectFrames[Len(C15_EffectFrames)][5] = 1

(***************************************************************************)
(* C19: the num_leds set_color stores is maximum_leds clamped to           *)
(* [1, 204 - start_led], start_led being the stored zero-based start, so   *)
(* that start_led argument 1 with maximum_leds 204 stages num_leds 204.    *)
(***************************************************************************)
C19_Start == Max(1, Min(204, call.args.start_led)) - 1

C19_NumLeds == Max(1, Min(204 - C19_Start, call.args.maximum_leds))

C19_NumLedsUpToStripEnd ==
    (ColorCallDone /\ call.args.mode \in ValidModes) =>
        /\ Len(C15_EffectFrames) >= 1
        /\ C15_EffectFrames[Len(C15_EffectFrames)][4] = C19_Start
        /\ C15_EffectFrames[Len(C15_EffectFrames)][5] = C19_NumLeds
        /\ call.args.mode # "off" =>
              StagedAfter[Len(StagedAfter)].num_leds = C19_NumLeds

(***************************************************************************)
(* C20: every buffer handed to the transport's write is 65 bytes long with *)
(* byte 0 zero and byte 1 the opcode; the payload sits from offset 2 on,   *)
(* cut to its first 63 bytes when longer, and every other byte is zero;    *)
(* each write comes after one clearing of the pending reads and before one *)
(* read of exactly 16 bytes.                                               *)
(***************************************************************************)
\* Every write of the log sits between its clear and its read.
C20_Triples ==
    /\ Len(log) % 3 = 0
    /\ \A i \in 1..Len(log) :
          /\ i % 3 = 1 => log[i].op = "clear"
          /\ i % 3 = 2 => log[i].op = "write" /\ Len(log[i].buf) = 65 /\ log[i].buf[1] = 0
          /\ i % 3 = 0 => log[i].op = "read" /\ log[i].len = 16

C20_Kept == IF Len(call.args.payload) > 63 THEN 63 ELSE Len(call.args.payload)

C20_FramedCommand ==
    /\ C20_Triples
    /\ call.op = "_send_command" =>
          /\ Len(log) = 3
          /\ log[2].buf[2] = call.args.command
          /\ \A i \in 3..65 :
                log[2].buf[i] = IF i - 2 <= C20_Kept THEN call.args.payload[i - 2] ELSE 0

\* A payload of more than 63 bytes: the frame ends with its 63rd byte.
C20_Witness ==
    /\ call.op = "_send_command" /\ Len(call.args.payload) > 63
    /\ Len(log) = 3 /\ Len(log[2].buf) = 65
    /\ log[2].buf[65] = call.args.payload[63]
    /\ call.args.payload[63] # 0

(***************************************************************************)
(* C16: for every byte sequence d, the empty one and every single byte     *)
(* among them, compute_pec(d followed by compute_pec(d)) is 0.             *)
(***************************************************************************)
C16_PecOfMessageWithPecIsZero ==
    /\ codec.fn = "compute_pec" =>
          compute_pec(_PEC_TBL, Append(codec.bytes, codec.pec)) = 0
    /\ codec.fn = "check_pec" => codec.pec = 0

\* The docstring's 5c 93, and the empty message followed by its PEC of 0.
C16_Witness ==
    /\ codec.fn = "check_pec"
    /\ codec.bytes \in { <<92, 147>>, <<0>> }
    /\ codec.pec = 0

(***************************************************************************)
(* C17: compute_pec, which looks a table up, returns what the bit-by-bit   *)
(* CRC-8 with polynomial 0x07, initial value 0, most significant bit       *)
(* first and no final XOR returns; the result is in 0..255; the PEC of     *)
(* '123456789' is 0xf4 and the PEC of the byte 0x5c is 0x93.               *)
(***************************************************************************)
\* The exclusive or of two bytes, bit by bit.
C17_Bit(a, weight) == (a \div weight) % 2

C17_Xor ==
    [a \in 0..255 |-> [b \in 0..255 |->
        LET differ(weight) == IF C17_Bit(a, weight) = C17_Bit(b, weight) THEN 0 ELSE weight
        IN  differ(1) + differ(2) + differ(4) + differ(8)
            + differ(16) + differ(32) + differ(64) + differ(128)]]

\* One step per bit: shift left within 8 bits, and fold 0x07 in when a 1
\* fell out.
C17_Step ==
    [reg \in 0..255 |-> IF reg >= 128 THEN C17_Xor[(reg * 2) % 256][7]
                        ELSE (reg * 2) % 256]

\* The eight steps of one byte.
C17_Byte ==
    [reg \in 0..255 |->
        C17_Step[C17_Step[C17_Step[C17_Step[C17_Step[C17_Step[C17_Step[C17_Step[reg]]]]]]]]]

\* The register after the first n bytes, from the initial value 0.
C17_Crc8(bytes) ==
    LET after[n \in 0..Len(bytes)] ==
            IF n = 0 THEN 0 ELSE C17_Byte[C17_Xor[after[n - 1]][bytes[n]]]
    IN  after[Len(bytes)]

C17_PecIsCrc8 ==
    codec.fn \in {"compute_pec", "check_pec"} =>
        /\ codec.pec = C17_Crc8(codec.bytes)
        /\ codec.pec \in 0..255
        /\ codec.bytes = <<49, 50, 51, 52, 53, 54, 55, 56, 57>> => codec.pec = 244
        /\ codec.bytes = <<92>> => codec.pec = 147
        /\ ~_PEC_TBL.none /\ DOMAIN _PEC_TBL.val = 0..255

C17_Witness ==
    /\ codec.fn = "compute_pec"
    /\ codec.bytes = <<49, 50, 51, 52, 53, 54, 55, 56, 57>>
    /\ codec.pec = 244

(***************************************************************************)
(* C18: for x = 0 and for every x = m * 2^e with 1 <= |m| <= 1023 and      *)
(* -16 <= e <= 15, linear_to_float(float_to_linear11(x)) is x, the encoder *)
(* taking the least exponent n = ceil(log2(|x| / 1023)) and wrapping the   *)
(* negative exponent and mantissa into their 5-bit and 11-bit fields.      *)
(***************************************************************************)
C18_InDomain(x) == x.m = 0 \/ (Abs(x.m) \in 1..1023 /\ x.e \in -16..15)

C18_RoundTrip ==
    (codec.fn = "linear_to_float" /\ C18_InDomain(codec.value)) =>
        SameFloat(codec.decoded, codec.value)

(***************************************************************************)
(* C21: the cached fan_modes and temp_sensors_connected are written by     *)
(* initialize only, as sequences as long as the variant's fan count and    *)
(* temperature probe count; set_fixed_speed, set_speed_profile, get_status *)
(* and set_color leave both as they were whatever the outcome, and         *)
(* initialize, set_fixed_speed, set_speed_profile and get_status leave     *)
(* saved_effects as it was.                                                *)
(***************************************************************************)
C21_CachesKept ==
    /\ data.fan_modes = pre.fan_modes
    /\ data.temp_sensors_connected = pre.temp_sensors_connected

C21_Lengths ==
    /\ ~data.fan_modes.none => Len(data.fan_modes.val) = variant.fan_count
    /\ ~data.temp_sensors_connected.none =>
          Len(data.temp_sensors_connected.val) = variant.temp_probs

C21_OnlyInitializeWritesCaches ==
    /\ C21_Lengths
    /\ call.op \in {"set_fixed_speed", "set_speed_profile", "get_status", "set_color"} =>
          C21_CachesKept
    /\ call.op \in {"initialize", "set_fixed_speed", "set_speed_profile", "get_status"} =>
          data.saved_effects = pre.saved_effects
    /\ call.op = "initialize" =>
          /\ variant.fan_count > 0 =>
                data.fan_modes = Some(SubSeq(call.args.fan_res, 2, 1 + variant.fan_count))
          /\ variant.temp_probs > 0 =>
                data.temp_sensors_connected
                    = Some(SubSeq(call.args.temp_res, 2, 1 + variant.temp_probs))
          /\ variant.fan_count = 0 => data.fan_modes = pre.fan_modes
          /\ variant.temp_probs = 0 =>
                data.temp_sensors_connected = pre.temp_sensors_connected

\* A second initialize that replaces both caches and keeps the staged effects.
C21_Witness ==
    /\ call.op = "initialize" /\ call.out = "ok"
    /\ ~pre.fan_modes.none /\ data.fan_modes # pre.fan_modes
    /\ Len(data.fan_modes.val) = 6 /\ Len(data.temp_sensors_connected.val) = 4
    /\ ~pre.saved_effects.none /\ Len(pre.saved_effects.val) >= 1
    /\ data.saved_effects = pre.saved_effects

(***************************************************************************)
(* C22: within one set_color call whose mode is not 'clear', saved_effects *)
(* is stored at most once, after the initialization frames of every        *)
(* resolved channel were sent and before the first LED_EFFECT frame.  A    *)
(* transport failure while the channels are initialized leaves the         *)
(* persisted sequence as it was; a failure during the replay or the commit *)
(* leaves the new sequence persisted.                                      *)
(***************************************************************************)
\* The latest call is a set_color that reached its channels and either ran
\* to its end or was ended by the transport.
C22_Call ==
    /\ call.op = "set_color" /\ call.args.mode \in ValidModes
    /\ call.out \in {"ok", "transport_error"}

C22_StorePositions == { i \in 1..Len(log) : log[i].op = "store" }

C22_WritesIn(positions, opcodes) ==
    Cardinality({ i \in positions : log[i].op = "write" /\ log[i].buf[2] \in opcodes })

\* The transport calls the initialization of every resolved channel takes:
\* three frames of three calls each.
C22_InitCalls == 9 * Len(LedChannels)

C22_NewSequence ==
    IF call.args.mode = "off" THEN None
    ELSE Some((IF pre.saved_effects.none THEN <<>> ELSE pre.saved_effects.val)
              \o BuiltEffects)

C22_StoredOnceBetweenInitAndReplay ==
    C22_Call =>
        /\ Cardinality(C22_StorePositions) <= 1
        /\ \A p \in C22_StorePositions :
              /\ p = C22_InitCalls + 1
              /\ C22_WritesIn(1..(p - 1), {55, 52, 56}) = 3 * Len(LedChannels)
              /\ C22_WritesIn(1..(p - 1), {53, 51}) = 0
              /\ \A i \in 1..(p - 1) : log[i].op \in {"clear", "write", "read"}
              /\ C22_WritesIn((p + 1)..Len(log), {55, 52, 56}) = 0
              /\ data.saved_effects = C22_NewSequence
        /\ C22_StorePositions = {} =>
              /\ data = pre
              /\ call.out = "transport_error"
              /\ Len(log) <= C22_InitCalls
              /\ C22_WritesIn(1..Len(log), {53, 51}) = 0
        /\ call.out = "ok" => Cardinality(C22_StorePositions) = 1
        /\ (call.out = "transport_error" /\ call.args.budget < C22_InitCalls) =>
              data = pre
        /\ (call.out = "transport_error" /\ call.args.budget >= C22_InitCalls) =>
              data.saved_effects = C22_NewSequence

\* The transport raised while the first LED_EFFECT frame was written: the
\* grown sequence is persisted although no effect reached the device.
C22_Witness ==
    /\ C22_Call /\ call.out = "transport_error" /\ call.args.mode = "fixed"
    /\ ~pre.saved_effects.none /\ Len(pre.saved_effects.val) >= 1
    /\ data.saved_effects # pre.saved_effects
    /\ Len(data.saved_effects.val) = Len(pre.saved_effects.val) + Len(LedChannels)
    /\ C22_WritesIn(1..Len(log), {53}) = 0
    /\ C22_StorePositions # {}

\* The transport raised in the last initialization frame: nothing persisted.
C22_WitnessInit ==
    /\ C22_Call /\ call.out = "transport_error" /\ call.args.mode = "fixed"
    /\ call.args.budget = C22_InitCalls - 1
    /\ ~pre.saved_effects.none /\ data = pre

(***************************************************************************)
(* C23: the CRC table is safe under concurrent first use.  Whatever the    *)
(* interleaving of threads calling compute_pec while no table is cached,   *)
(* no thread indexes a partially filled table, every thread obtains a      *)
(* table with the same 256 entries, and the entries of a table bound to    *)
(* the process-wide cache never change.                                    *)
(***************************************************************************)
\* The 256 entries of the CRC-8 table, from the bit-by-bit steps.
C23_Table == [i \in 0..255 |-> C17_Byte[i]]

C23_Holds(t) == threads.thread[t].pc \in {"loop", "done"}

C23_TableSafe ==
    /\ \A t \in Threads :
          /\ ~threads.thread[t].torn
          /\ C23_Holds(t) =>
                /\ threads.thread[t].tbl \in Threads
                /\ threads.lists[threads.thread[t].tbl] = C23_Table
          /\ threads.thread[t].pc = "done" =>
                threads.thread[t].reg = C17_Crc8(threads.thread[t].bytes)
    /\ threads.global # "none" =>
          /\ threads.lists[threads.global] = C23_Table
          /\ _PEC_TBL = Some(C23_Table)
    /\ threads.global = "none" => _PEC_TBL = None

\* Both threads found no table and built one each: t1 computed with its own
\* list, and the cache holds the list t2 bound after it.
C23_Witness ==
    /\ threads.thread["t1"].pc = "done" /\ threads.thread["t1"].tbl = "t1"
    /\ threads.thread["t2"].pc = "done" /\ threads.thread["t2"].tbl = "t2"
    /\ threads.global = "t2"
    /\ threads.thread["t1"].bytes = <<92>> /\ threads.thread["t1"].reg = 147
    /\ threads.thread["t2"].bytes = <<92, 147>> /\ threads.thread["t2"].reg = 0

(***************************************************************************)
(* C24: on the variant with exactly one LED channel, set_color with a      *)
(* valid mode and a channel name that is neither 'sync' nor 'led' is       *)
(* tolerated: the call raises no error, stages no effect and sends no      *)
(* initialization frame.                                                   *)
(***************************************************************************)
C24_Call ==
    /\ call.op = "set_color" /\ variant.led_channels = 1
    /\ call.args.mode \in ValidModes
    /\ call.args.channel \notin {"sync", "led"}

C24_UnknownChannelTolerated ==
    C24_Call =>
        /\ call.out = "ok"
        /\ data.saved_effects = pre.saved_effects
        /\ BuffersOf(55) = <<>> /\ BuffersOf(52) = <<>> /\ BuffersOf(56) = <<>>

====
